---- MODULE Spec2Model ----
(***************************************************************************)
(* Model of class Subcribe (src/main.py): the callback-driven bridge that  *)
(* receives Cortex events, keeps the connectivity flag and forwards the    *)
(* band-power proportions over OSC.                                        *)
(*                                                                         *)
(* One action per public method / callback of the class.  Every action     *)
(* records the invocation in `event`, the calls it made on the two         *)
(* collaborators (the Cortex client `c` and the OSC client `osc_client`)   *)
(* in `effects`, and the exception that left the method, if any, in `exc`. *)
(* Numbers are exact rationals [num, den]; a division by zero raises.      *)
(***************************************************************************)
EXTENDS Integers, Sequences, FiniteSets, TLC

\* ------------------------------------------------------------------ bounds
\* largest single band-power value drawn for an input vector
MaxPow == 2

\* --------------------------------------------------------- program constants
\* the quality threshold of on_new_dev_data
Threshold == 50

VARIABLES
    creds,              \* the keys that creds.env holds (read once, at module entry)
    flag,               \* self.flag
    attrs,              \* names of the instance attributes that have been assigned
    streams,            \* self.streams (meaningful when "streams" \in attrs)
    pow_labels,         \* self.pow_labels
    met_labels,         \* self.met_labels
    c_status,           \* the Cortex client: "new", "open", "closed"
    osc_status,         \* the OSC client: "open", "closed"
    connection_status,  \* <<q>>: data['dev'][2] of the latest device event; <<>> before any
    event,              \* the latest invocation: method and arguments
    effects,            \* the collaborator calls made by the latest invocation, in order
    exc                 \* the exception that left the latest invocation ("none" if it returned)

vars == <<creds, flag, attrs, streams, pow_labels, met_labels, c_status,
          osc_status, connection_status, event, effects, exc>>

\* ------------------------------------------------------------------ inputs
\* the four settings the module entry reads from creds.env
RequiredSettings == {"osc_ip", "osc_port", "client_id", "client_secret"}

CredsFiles == SUBSET RequiredSettings

\* a module entry that reads the client secret with a default
SettingsLoaded_secretOptional(file) ==
    \A k \in RequiredSettings \ {"client_secret"} : k \in file

\* lines 257-260 complete: every dotenv_values('creds.env')[key] finds its key
SettingsLoaded(file) == \A k \in RequiredSettings : k \in file

StreamLists == {<<"met", "pow", "dev">>, <<"eeg", "mot">>}

HeadsetIds == {"", "EPOCX-1"}

\* the (streamName, labels) pairs of the label events
LabelEvents ==
    {<<"pow", <<"AF3/theta", "AF3/alpha">>>>,
     <<"pow", <<"AF3/theta", "T7/theta">>>>,
     <<"met", <<"eng.isActive", "eng">>>>,
     <<"eeg", <<"COUNTER", "AF3">>>>,
     <<"mot", <<"COUNTER_MEMS", "Q0">>>>,
     <<"dev", <<"AF3", "OVERALL">>>>,
     <<"sys", <<"AF3/theta", "AF3/alpha">>>>}

\* values met at the position the device handler reads, and the documented example
Qualities == {30, 49, 50, 80}

\* vectors in the documented layout ['AF3', 'T7', 'Pz', 'T8', 'AF4', 'OVERALL']:
\* contact quality 0..4 per channel, then the overall quality 0..100
DocumentedDev == {<<4, 4, 4, 4, 4, 100>>, <<4, 4, 4, 4, 4, 30>>}

DevInputs == {<<4, 4, q, 4, 4, 100>> : q \in Qualities} \cup DocumentedDev

ConstVec(n, k) == [i \in 1..n |-> k]

\* 25 values, all 1 but the one at position p
SpikeVec(p, h) == [i \in 1..25 |-> IF i = p THEN 1 + h ELSE 1]

\* 25 values with all the power at the first two sites (Python indices 0..9)
FrontVec == [i \in 1..25 |-> IF i <= 10 THEN 1 ELSE 0]

\* lengths other than the 25 of the fixed layout
WrongLens == {0, 9, 10, 26}

PowInputs ==
    {ConstVec(25, k) : k \in 0..MaxPow}
    \cup {SpikeVec(p, MaxPow) : p \in 1..25}
    \cup {FrontVec}
    \cup {ConstVec(n, k) : n \in WrongLens, k \in 0..1}

\* ------------------------------------------------------------- invocations
Invocation(m, nums, name, strs) ==
    [method |-> m, nums |-> nums, name |-> name, strs |-> strs]

\* strs: the stream list passed; for open, the list self.streams holds when
\* the call is made (what a callback fired from inside open would subscribe to)
Call(op, name, strs, args) ==
    [op |-> op, name |-> name, strs |-> strs, args |-> args]

\* ------------------------------------------------------------- arithmetic
RECURSIVE SumSeq(_)
SumSeq(s) == IF s = <<>> THEN 0 ELSE Head(s) + SumSeq(Tail(s))

Frac(n, d) == [num |-> n, den |-> d]

FracAdd(a, b) ==
    IF a.den = b.den
    THEN Frac(a.num + b.num, a.den)
    ELSE Frac(a.num * b.den + b.num * a.den, a.den * b.den)

FracEq(a, b) == a.num * b.den = b.num * a.den

Zero == Frac(0, 1)

ZeroVector == <<Zero, Zero, Zero, Zero, Zero, Zero, Zero>>

\* ---------------------------------------------------------- connectivity gate
\* a gate that latches: it never goes back to FALSE
NextFlag_latched(f, q) ==
    IF q >= Threshold /\ f = FALSE THEN TRUE ELSE f

NextFlag(f, q) ==
    IF q < Threshold /\ f = TRUE THEN FALSE
    ELSE IF q >= Threshold /\ f = FALSE THEN TRUE
    ELSE f

\* ------------------------------------------------------ band-power aggregator
\* sum_<band>_pow for band b in 0..4 (Python indices b and 5 + b)
BandTotal_offByOne(pow, b) == pow[b + 1] + pow[5 + b]

BandTotal(pow, b) == pow[b + 1] + pow[5 + b + 1]

\* proportions normalised by the power of the two summed sites only
Proportion_overSummedSites(pow, b) ==
    Frac(BandTotal(pow, b), SumSeq(SubSeq(pow, 1, 10)))

Proportion(pow, b) == Frac(BandTotal(pow, b), SumSeq(pow))

Meditation(pow) == FracAdd(Proportion(pow, 0), Proportion(pow, 1))

\* attention without the gamma proportion
Attention_noGamma(pow) == FracAdd(Proportion(pow, 2), Proportion(pow, 3))

Attention(pow) ==
    FracAdd(FracAdd(Proportion(pow, 2), Proportion(pow, 3)), Proportion(pow, 4))

Computed(pow) ==
    <<Proportion(pow, 0), Proportion(pow, 1), Proportion(pow, 2),
      Proportion(pow, 3), Proportion(pow, 4), Meditation(pow), Attention(pow)>>

\* the exception raised by lines 216-229, "none" when they complete
PowFailure(pow) ==
    IF Len(pow) < 10 THEN "IndexError"
    ELSE IF SumSeq(pow) = 0 THEN "ZeroDivisionError"
    ELSE "none"

\* an emission that ignores the gate
Emission_ungated(f, pow) == Computed(pow)

Emission(f, pow) == IF f THEN Computed(pow) ELSE ZeroVector

\* ------------------------------------------------------------------ state
\* the module entry got as far as line 261, so the Subcribe object exists
Constructed == SettingsLoaded(creds)

Init ==
    /\ creds \in CredsFiles
    /\ flag = FALSE
    /\ attrs = {}
    /\ streams = <<>>
    /\ pow_labels = <<>>
    /\ met_labels = <<>>
    /\ c_status = "new"
    /\ osc_status = "open"
    /\ connection_status = <<>>
    /\ event = Invocation(IF Constructed THEN "__init__" ELSE "__main__",
                           <<>>, "", <<>>)
    /\ effects = <<>>
    /\ exc = IF Constructed THEN "none" ELSE "KeyError"

\* a start that also re-initialises the gate
start_resetsFlag(strs, headsetId) ==
    /\ Constructed
    /\ UNCHANGED creds
    /\ event' = Invocation("start", <<>>, headsetId, strs)
    /\ streams' = strs
    /\ attrs' = attrs \cup {"streams"}
    /\ c_status' = "open"
    /\ flag' = FALSE
    /\ effects' = (IF headsetId # ""
                   THEN <<Call("set_wanted_headset", headsetId, <<>>, <<>>)>>
                   ELSE <<>>)
                  \o <<Call("open", "", strs, <<>>)>>
    /\ exc' = "none"
    /\ UNCHANGED <<pow_labels, met_labels, osc_status, connection_status>>

\* a start that opens the connection before it records anything
start_opensFirst(strs, headsetId) ==
    /\ Constructed
    /\ UNCHANGED creds
    /\ event' = Invocation("start", <<>>, headsetId, strs)
    /\ streams' = strs
    /\ attrs' = attrs \cup {"streams"}
    /\ c_status' = "open"
    /\ effects' = <<Call("open", "", streams, <<>>)>>
                  \o (IF headsetId # ""
                      THEN <<Call("set_wanted_headset", headsetId, <<>>, <<>>)>>
                      ELSE <<>>)
    /\ exc' = "none"
    /\ UNCHANGED <<flag, pow_labels, met_labels, osc_status, connection_status>>

start(strs, headsetId) ==
    /\ Constructed
    /\ UNCHANGED creds
    /\ event' = Invocation("start", <<>>, headsetId, strs)
    /\ streams' = strs
    /\ attrs' = attrs \cup {"streams"}
    /\ c_status' = "open"
    /\ effects' = (IF headsetId # ""
                   THEN <<Call("set_wanted_headset", headsetId, <<>>, <<>>)>>
                   ELSE <<>>)
                  \o <<Call("open", "", strs, <<>>)>>
    /\ exc' = "none"
    /\ UNCHANGED <<flag, pow_labels, met_labels, osc_status, connection_status>>

sub(strs) ==
    /\ Constructed
    /\ UNCHANGED creds
    /\ event' = Invocation("sub", <<>>, "", strs)
    /\ effects' = <<Call("sub_request", "", strs, <<>>)>>
    /\ exc' = "none"
    /\ UNCHANGED <<flag, attrs, streams, pow_labels, met_labels, c_status,
                   osc_status, connection_status>>

unsub(strs) ==
    /\ Constructed
    /\ UNCHANGED creds
    /\ event' = Invocation("unsub", <<>>, "", strs)
    /\ effects' = <<Call("unsub_request", "", strs, <<>>)>>
    /\ exc' = "none"
    /\ UNCHANGED <<flag, attrs, streams, pow_labels, met_labels, c_status,
                   osc_status, connection_status>>

\* a label handler whose last branch stores every other kind as the pow labels
on_new_data_labels_elseStoresPow(stream_name, stream_labels) ==
    /\ Constructed
    /\ UNCHANGED creds
    /\ event' = Invocation("on_new_data_labels", <<>>, stream_name, stream_labels)
    /\ IF stream_name = "met"
       THEN /\ met_labels' = stream_labels
            /\ attrs' = attrs \cup {"met_labels"}
            /\ UNCHANGED pow_labels
       ELSE /\ pow_labels' = stream_labels
            /\ attrs' = attrs \cup {"pow_labels"}
            /\ UNCHANGED met_labels
    /\ effects' = <<>>
    /\ exc' = "none"
    /\ UNCHANGED <<flag, streams, c_status, osc_status, connection_status>>

\* a label handler without the 'met' branch
on_new_data_labels_powOnly(stream_name, stream_labels) ==
    /\ Constructed
    /\ UNCHANGED creds
    /\ event' = Invocation("on_new_data_labels", <<>>, stream_name, stream_labels)
    /\ IF stream_name = "pow"
       THEN /\ pow_labels' = stream_labels
            /\ attrs' = attrs \cup {"pow_labels"}
            /\ UNCHANGED met_labels
       ELSE UNCHANGED <<pow_labels, met_labels, attrs>>
    /\ effects' = <<>>
    /\ exc' = "none"
    /\ UNCHANGED <<flag, streams, c_status, osc_status, connection_status>>

on_new_data_labels(stream_name, stream_labels) ==
    /\ Constructed
    /\ UNCHANGED creds
    /\ event' = Invocation("on_new_data_labels", <<>>, stream_name, stream_labels)
    /\ IF stream_name = "pow"
       THEN /\ pow_labels' = stream_labels
            /\ attrs' = attrs \cup {"pow_labels"}
            /\ UNCHANGED met_labels
       ELSE IF stream_name = "met"
       THEN /\ met_labels' = stream_labels
            /\ attrs' = attrs \cup {"met_labels"}
            /\ UNCHANGED pow_labels
       ELSE UNCHANGED <<pow_labels, met_labels, attrs>>
    /\ effects' = <<>>
    /\ exc' = "none"
    /\ UNCHANGED <<flag, streams, c_status, osc_status, connection_status>>

on_new_eeg_data ==
    /\ Constructed
    /\ UNCHANGED creds
    /\ event' = Invocation("on_new_eeg_data", <<99, 0, 4291>>, "", <<>>)
    /\ effects' = <<>>
    /\ exc' = "none"
    /\ UNCHANGED <<flag, attrs, streams, pow_labels, met_labels, c_status,
                   osc_status, connection_status>>

on_new_mot_data ==
    /\ Constructed
    /\ UNCHANGED creds
    /\ event' = Invocation("on_new_mot_data", <<33, 0>>, "", <<>>)
    /\ effects' = <<>>
    /\ exc' = "none"
    /\ UNCHANGED <<flag, attrs, streams, pow_labels, met_labels, c_status,
                   osc_status, connection_status>>

on_new_dev_data(dev) ==
    /\ Constructed
    /\ UNCHANGED creds
    /\ event' = Invocation("on_new_dev_data", dev, "", <<>>)
    /\ connection_status' = <<dev[3]>>
    /\ flag' = NextFlag(flag, dev[3])
    /\ effects' = <<>>
    /\ exc' = "none"
    /\ UNCHANGED <<attrs, streams, pow_labels, met_labels, c_status,
                   osc_status>>

\* a metric handler with the forwarding of line 201 switched on
on_new_met_data_forwards ==
    /\ Constructed
    /\ UNCHANGED creds
    /\ event' = Invocation("on_new_met_data", <<1, 0, 1>>, "", <<>>)
    /\ effects' = <<Call("send_message", "/met", <<>>, <<>>)>>
    /\ exc' = "none"
    /\ UNCHANGED <<flag, attrs, streams, pow_labels, met_labels, c_status,
                   osc_status, connection_status>>

on_new_met_data ==
    /\ Constructed
    /\ UNCHANGED creds
    /\ event' = Invocation("on_new_met_data", <<1, 0, 1>>, "", <<>>)
    /\ effects' = <<>>
    /\ exc' = "none"
    /\ UNCHANGED <<flag, attrs, streams, pow_labels, met_labels, c_status,
                   osc_status, connection_status>>

\* sendFails: the datagram transport raises inside send_message
on_new_pow_data(pow, sendFails) ==
    /\ Constructed
    /\ UNCHANGED creds
    /\ event' = Invocation("on_new_pow_data", pow, "", <<>>)
    /\ IF PowFailure(pow) # "none"
       THEN /\ effects' = <<>>
            /\ exc' = PowFailure(pow)
       ELSE /\ effects' = <<Call("send_message", "/pow_proportion", <<>>,
                                 Emission(flag, pow))>>
            /\ exc' = IF sendFails THEN "OSError" ELSE "none"
    /\ UNCHANGED <<flag, attrs, streams, pow_labels, met_labels, c_status,
                   osc_status, connection_status>>

\* a session handler that subscribes to the entry point's list, not the recorded one
on_create_session_done_fixedList ==
    /\ Constructed
    /\ UNCHANGED creds
    /\ event' = Invocation("on_create_session_done", <<>>, "", <<>>)
    /\ effects' = <<Call("sub_request", "", <<"met", "pow", "dev">>, <<>>)>>
    /\ exc' = "none"
    /\ UNCHANGED <<flag, attrs, streams, pow_labels, met_labels, c_status,
                   osc_status, connection_status>>

on_create_session_done ==
    /\ Constructed
    /\ UNCHANGED creds
    /\ event' = Invocation("on_create_session_done", <<>>, "", <<>>)
    /\ IF "streams" \in attrs
       THEN /\ effects' = <<Call("sub_request", "", streams, <<>>)>>
            /\ exc' = "none"
       ELSE /\ effects' = <<>>
            /\ exc' = "AttributeError"
    /\ UNCHANGED <<flag, attrs, streams, pow_labels, met_labels, c_status,
                   osc_status, connection_status>>

\* an error handler that reconnects
on_inform_error_reopens ==
    /\ Constructed
    /\ UNCHANGED creds
    /\ event' = Invocation("on_inform_error", <<>>, "error_data", <<>>)
    /\ c_status' = "open"
    /\ effects' = <<Call("open", "", streams, <<>>)>>
    /\ exc' = "none"
    /\ UNCHANGED <<flag, attrs, streams, pow_labels, met_labels,
                   osc_status, connection_status>>

on_inform_error ==
    /\ Constructed
    /\ UNCHANGED creds
    /\ event' = Invocation("on_inform_error", <<>>, "error_data", <<>>)
    /\ effects' = <<>>
    /\ exc' = "none"
    /\ UNCHANGED <<flag, attrs, streams, pow_labels, met_labels, c_status,
                   osc_status, connection_status>>

\* a close that releases the Cortex connection only
on_close_cortexOnly ==
    /\ Constructed
    /\ UNCHANGED creds
    /\ event' = Invocation("on_close", <<>>, "", <<>>)
    /\ c_status' = "closed"
    /\ effects' = <<Call("close", "", <<>>, <<>>)>>
    /\ exc' = "none"
    /\ UNCHANGED <<flag, attrs, streams, pow_labels, met_labels, osc_status,
                   connection_status>>

on_close ==
    /\ Constructed
    /\ UNCHANGED creds
    /\ event' = Invocation("on_close", <<>>, "", <<>>)
    /\ c_status' = "closed"
    /\ osc_status' = "closed"
    /\ effects' = <<Call("close", "", <<>>, <<>>), Call("osc_close", "", <<>>, <<>>)>>
    /\ exc' = "none"
    /\ UNCHANGED <<flag, attrs, streams, pow_labels, met_labels,
                   connection_status>>

Next ==
    \/ \E strs \in StreamLists, h \in HeadsetIds : start(strs, h)
    \/ \E strs \in StreamLists : sub(strs)
    \/ \E strs \in StreamLists : unsub(strs)
    \/ \E l \in LabelEvents : on_new_data_labels(l[1], l[2])
    \/ on_new_eeg_data
    \/ on_new_mot_data
    \/ \E dev \in DevInputs : on_new_dev_data(dev)
    \/ on_new_met_data
    \/ \E pow \in PowInputs, sendFails \in BOOLEAN : on_new_pow_data(pow, sendFails)
    \/ on_create_session_done
    \/ on_inform_error
    \/ on_close

Spec == Init /\ [][Next]_vars

\* ==================================================================== claims
IsPow == event.method = "on_new_pow_data"

\* the gate as the device events alone determine it
LatestQualityGood == connection_status # <<>> /\ connection_status[1] >= 50

SendOf(args) == <<Call("send_message", "/pow_proportion", <<>>, args)>>

NoSendOpenSub(fx) ==
    \A i \in 1..Len(fx) : fx[i].op \notin {"open", "sub_request", "send_message"}

\* C1 (as claimed): while the gate is false, every band-power event of 25
\* values, the zero-sum one included, emits exactly seven zeros.
C1_ZerosWhenDisconnected ==
    (IsPow /\ Len(event.nums) = 25 /\ ~flag) => effects = SendOf(ZeroVector)

\* C2: the gate is true exactly when the latest device event carried a quality
\* of at least 50 (false before any device event), and it changes only on a
\* device event whose quality lies on the other side of 50.
C2_GateFollowsLatestQuality ==
    /\ [](flag = LatestQualityGood)
    /\ [][flag' # flag =>
            /\ event'.method = "on_new_dev_data"
            /\ \/ flag /\ event'.nums[3] < 50
               \/ ~flag /\ event'.nums[3] >= 50]_vars

C2_Witness ==
    /\ event.method = "on_new_dev_data"
    /\ connection_status = <<49>>
    /\ flag = FALSE
    /\ "streams" \in attrs

\* C3 (amended): for 25 values with a non-zero sum and the gate true, the
\* proportion emitted for band b is (values[b] + values[5+b]) / sum(values):
\* the sites at indices 0 and 1 of the layout.
C3_ProportionSites0And1 ==
    (IsPow /\ Len(event.nums) = 25 /\ SumSeq(event.nums) # 0 /\ flag) =>
        /\ Len(effects) = 1
        /\ \A b \in 0..4 :
              FracEq(effects[1].args[b + 1],
                     Frac(event.nums[b + 1] + event.nums[5 + b + 1],
                          SumSeq(event.nums)))

\* C3 (as claimed): the proportion emitted for band b is
\* (values[b] + values[15+b]) / sum(values): the sites at indices 0 and 3.
C3_ProportionSites0And3 ==
    (IsPow /\ Len(event.nums) = 25 /\ SumSeq(event.nums) # 0 /\ flag) =>
        /\ Len(effects) = 1
        /\ \A b \in 0..4 :
              FracEq(effects[1].args[b + 1],
                     Frac(event.nums[b + 1] + event.nums[15 + b + 1],
                          SumSeq(event.nums)))

\* the extra power sits at T7/theta (Python index 5), which the code sums
C3_Witness ==
    /\ IsPow
    /\ flag
    /\ event.nums = SpikeVec(6, MaxPow)
    /\ Len(effects) = 1
    /\ FracEq(effects[1].args[1], Frac(2 + MaxPow, 25 + MaxPow))

\* C4 (as claimed): a band-power event of 25 values summing to zero returns
\* normally and emits nothing or the seven zeros.
C4_ZeroSumHandled ==
    (IsPow /\ Len(event.nums) = 25 /\ SumSeq(event.nums) = 0) =>
        /\ exc = "none"
        /\ effects = <<>> \/ effects = SendOf(ZeroVector)

\* C5: with the gate true and 25 values of non-zero sum, exactly one message
\* goes out on '/pow_proportion' with the seven values theta, alpha, betaLow,
\* betaHigh, gamma, meditation, attention of that vector, meditation being
\* theta + alpha and attention betaLow + betaHigh + gamma; 25 equal values
\* give 2/25 five times, then 4/25 and 6/25.
C5_SevenValuesInOrder ==
    (IsPow /\ flag /\ Len(event.nums) = 25 /\ SumSeq(event.nums) # 0) =>
        /\ Len(effects) = 1
        /\ effects[1].op = "send_message"
        /\ effects[1].name = "/pow_proportion"
        /\ Len(effects[1].args) = 7
        /\ LET a == effects[1].args IN
              /\ \A b \in 0..4 : a[b + 1] = Proportion(event.nums, b)
              /\ FracEq(a[6], FracAdd(a[1], a[2]))
              /\ FracEq(a[7], FracAdd(a[3], FracAdd(a[4], a[5])))
              /\ (\E k \in 1..MaxPow : event.nums = ConstVec(25, k)) =>
                    /\ \A i \in 1..5 : FracEq(a[i], Frac(2, 25))
                    /\ FracEq(a[6], Frac(4, 25))
                    /\ FracEq(a[7], Frac(6, 25))

C5_Witness ==
    /\ IsPow
    /\ flag
    /\ event.nums = ConstVec(25, 1)
    /\ Len(effects) = 1
    /\ FracEq(effects[1].args[6], Frac(4, 25))
    /\ FracEq(effects[1].args[7], Frac(6, 25))

\* C6: what a band-power event emits is decided by the latest device event
\* before it: the computed vector when that event's quality was at least 50,
\* seven zeros when it was below 50 or when there was none; a vector of 25
\* values with a non-zero sum always emits.
C6_EmissionFollowsPrecedingDeviceEvent ==
    IsPow =>
        /\ (Len(event.nums) = 25 /\ SumSeq(event.nums) # 0) => effects # <<>>
        /\ effects # <<>> =>
              effects = SendOf(IF LatestQualityGood
                               THEN Computed(event.nums)
                               ELSE ZeroVector)

\* device(80), then the vector of 25 twos: 0.08 five times, 0.16, 0.24
C6_Witness ==
    /\ IsPow
    /\ connection_status = <<80>>
    /\ event.nums = ConstVec(25, 2)
    /\ Len(effects) = 1
    /\ \A i \in 1..5 : FracEq(effects[1].args[i], Frac(8, 100))
    /\ FracEq(effects[1].args[6], Frac(16, 100))
    /\ FracEq(effects[1].args[7], Frac(24, 100))

C8_ClosedIsTerminal ==
    [][osc_status = "closed" =>
          /\ NoSendOpenSub(effects')
          /\ UNCHANGED <<flag, attrs, streams, pow_labels, met_labels,
                         c_status, osc_status>>]_vars

\* C9: an error event leaves the gate, the stream list, the labels and both
\* connections as they were and calls neither collaborator.
C9_ErrorChangesNothing ==
    [][event'.method = "on_inform_error" =>
          /\ effects' = <<>>
          /\ exc' = "none"
          /\ UNCHANGED <<flag, attrs, streams, pow_labels, met_labels,
                         c_status, osc_status, connection_status>>]_vars

C9_Witness ==
    /\ event.method = "on_inform_error"
    /\ flag
    /\ c_status = "closed"
    /\ streams = <<"met", "pow", "dev">>
    /\ pow_labels # <<>>

\* C10: the gate is false at construction and only a device event changes it.
C10_FlagOnlyByDeviceHandler ==
    /\ flag = FALSE
    /\ [][flag' # flag => event'.method = "on_new_dev_data"]_vars

C10_Witness ==
    /\ flag
    /\ event.method = "start"
    /\ connection_status = <<80>>

IsLabels == event.method = "on_new_data_labels"

\* what the instance holds for a stream kind: only pow and met have an attribute
StoredLabels(k) ==
    IF k = "pow" THEN pow_labels
    ELSE IF k = "met" THEN met_labels
    ELSE <<>>

\* C11 (as claimed): a send that fails during a band-power event does not
\* leave the handler: the handler that attempted a send returns normally.
C11_SendFailureContained ==
    (IsPow /\ effects # <<>>) => exc = "none"

\* C12 (as claimed): a band-power vector whose length is not 25 makes the
\* handler return normally with no emission or with the seven zeros.
C12_WrongLengthSkippedOrZeroed ==
    (IsPow /\ Len(event.nums) # 25) =>
        /\ exc \notin {"IndexError", "ZeroDivisionError"}
        /\ effects = <<>> \/ effects = SendOf(ZeroVector)

\* C13: the labels stored for band-power are those of the latest band-power
\* label event: such an event overwrites them, and nothing else changes them.
C13_PowLabelsRoundTrip ==
    /\ []((IsLabels /\ event.name = "pow") =>
            "pow_labels" \in attrs /\ pow_labels = event.strs)
    /\ [][(pow_labels' # pow_labels
           \/ ("pow_labels" \in attrs') # ("pow_labels" \in attrs)) =>
            event'.method = "on_new_data_labels" /\ event'.name = "pow"]_vars

\* the second pow label set replaced the first and a later eeg label event kept it
C13_Witness ==
    /\ IsLabels
    /\ event.name = "eeg"
    /\ pow_labels = <<"AF3/theta", "T7/theta">>

\* C14 (as claimed): a label event (k, L) of any kind returns normally and
\* leaves L stored as the labels of kind k.
C14_EveryKindStored ==
    IsLabels => (exc = "none" /\ StoredLabels(event.name) = event.strs)

\* C14 (amended): a label event returns normally and calls no collaborator;
\* for pow and met it overwrites the stored labels of that kind; for any other
\* kind it stores nothing and leaves the stored labels as they were.
C14_OnlyPowAndMetStored ==
    /\ [](IsLabels =>
            /\ exc = "none"
            /\ effects = <<>>
            /\ event.name = "pow" => pow_labels = event.strs
            /\ event.name = "met" => met_labels = event.strs)
    /\ [][(event'.method = "on_new_data_labels"
           /\ event'.name \notin {"pow", "met"}) =>
            UNCHANGED <<pow_labels, met_labels, attrs>>]_vars

C14_Witness ==
    /\ IsLabels
    /\ event.name = "sys"
    /\ exc = "none"
    /\ attrs = {"pow_labels", "met_labels"}
    /\ met_labels = <<"eng.isActive", "eng">>

\* C15: start records the stream list, then tells the client the wanted
\* headset when (and only when) a non-empty id was given, then calls open
\* exactly once; the list is already recorded when open is called.
C15_StartOrder ==
    event.method = "start" =>
        /\ "streams" \in attrs
        /\ streams = event.strs
        /\ effects =
              (IF event.name # ""
               THEN <<Call("set_wanted_headset", event.name, <<>>, <<>>)>>
               ELSE <<>>)
              \o <<Call("open", "", event.strs, <<>>)>>

C15_Witness ==
    /\ event.method = "start"
    /\ event.name = "EPOCX-1"
    /\ event.strs = <<"met", "pow", "dev">>
    /\ Len(effects) = 2
    /\ effects[1].op = "set_wanted_headset"
    /\ effects[2].op = "open"

\* C16: on_close, in any state, closes the Cortex connection and the OSC
\* client.
C16_CloseReleasesBoth ==
    event.method = "on_close" =>
        /\ effects = <<Call("close", "", <<>>, <<>>),
                       Call("osc_close", "", <<>>, <<>>)>>
        /\ c_status = "closed"
        /\ osc_status = "closed"

\* closed while a session was open and the gate was true
C16_Witness ==
    /\ event.method = "on_close"
    /\ flag
    /\ streams = <<"eeg", "mot">>
    /\ osc_status = "closed"

\* C17: with any of the four settings missing from creds.env the module entry
\* stops with KeyError: no object is built, start is not called and open is
\* never called.
C17_MissingSettingStopsStartup ==
    (\E k \in {"osc_ip", "osc_port", "client_id", "client_secret"} : k \notin creds) =>
        /\ event.method = "__main__"
        /\ exc = "KeyError"
        /\ c_status = "new"
        /\ effects = <<>>

C17_Witness ==
    /\ creds = {"osc_ip", "osc_port", "client_id"}
    /\ exc = "KeyError"
    /\ c_status = "new"

\* C18 (as claimed): for a device vector in the documented layout (five
\* per-channel values 0..4, then OVERALL 0..100) the gate after the event is
\* true exactly when the 0-100 indicator is at least 50.
C18_GateFollowsOverallQuality ==
    (/\ event.method = "on_new_dev_data"
     /\ \A i \in 1..5 : event.nums[i] \in 0..4
     /\ event.nums[6] \in 0..100) =>
        flag = (event.nums[6] >= 50)

\* C19: only band-power events send; every message is on '/pow_proportion'
\* with exactly 7 arguments; a band-power event of 25 values with a non-zero
\* sum sends exactly one.
C19_OnlyPowSends ==
    /\ (\E i \in 1..Len(effects) : effects[i].op = "send_message") => IsPow
    /\ \A i \in 1..Len(effects) :
          effects[i].op = "send_message" =>
              effects[i].name = "/pow_proportion" /\ Len(effects[i].args) = 7
    /\ (IsPow /\ Len(event.nums) = 25 /\ SumSeq(event.nums) # 0) =>
          Len(effects) = 1 /\ effects[1].op = "send_message"

C19_Witness ==
    /\ IsPow
    /\ ~flag
    /\ event.nums = SpikeVec(25, MaxPow)
    /\ effects = SendOf(ZeroVector)

\* C20: for 25 non-negative values with a positive sum (gate true) each of the
\* five proportions lies in [0, 1], meditation + attention equals the sum of
\* the five, is at most 1, and is 1 only when no power lies outside the
\* summed positions.
C20_ProportionsBounded ==
    (IsPow /\ flag /\ Len(event.nums) = 25 /\ SumSeq(event.nums) > 0
     /\ \A i \in 1..25 : event.nums[i] >= 0) =>
        /\ Len(effects) = 1
        /\ LET a == effects[1].args
               ma == FracAdd(a[6], a[7])
               five == FracAdd(a[1], FracAdd(a[2], FracAdd(a[3], FracAdd(a[4], a[5]))))
           IN  /\ \A i \in 1..5 :
                     a[i].den > 0 /\ 0 <= a[i].num /\ a[i].num <= a[i].den
               /\ FracEq(ma, five)
               /\ ma.den > 0
               /\ ma.num <= ma.den
               /\ ma.num = ma.den => \A i \in 11..25 : event.nums[i] = 0

\* all the power at the two summed sites: meditation + attention = 1
C20_Witness ==
    /\ IsPow
    /\ flag
    /\ event.nums = FrontVec
    /\ Len(effects) = 1
    /\ FracEq(FracAdd(effects[1].args[6], effects[1].args[7]), Frac(1, 1))

====
